---- MODULE Spec2Model ----
(***************************************************************************)
(* FIFO lot matching of the tax report generator                           *)
(* (src/services/tax_report.py), the PnL calculator (src/services/pnl.py)  *)
(* and the price cache (src/services/prices.py).                           *)
(*                                                                         *)
(* Spec        replays calculate_gains_fifo one event at a time over the   *)
(*             events generate_tax_events builds (sorted by timestamp).    *)
(* SpecReport  runs generate_tax_report as a whole on bounded input lists, *)
(*             with and without a year filter.                             *)
(* SpecPnl     replays the loop of calculate_token_pnl one transfer at a   *)
(*             time, next to calculate_gains_fifo on the same movements.   *)
(* SpecCalls   interleaves the iterations of two concurrent calls.         *)
(* SpecExport  runs the CSV export route on the report of an address.      *)
(* SpecPrices  runs get_token_prices against its cache and a clock.        *)
(* SpecNft     runs _calculate_nft_holdings on the NFT transfers of an     *)
(*             address (src/services/blockchain.py).                       *)
(* SpecContracts, SpecLots, SpecFeed run generate_tax_report on the        *)
(*             transfers of two contracts with one symbol, on native       *)
(*             transactions alone, and on the records BlockchainClient     *)
(*             formats.                                                    *)
(*                                                                         *)
(* Arithmetic: Python floats are modelled as exact rationals.  Every USD   *)
(* amount (cost_per_unit, proceeds, cost_basis, gain_loss) is kept in      *)
(* units of 1/Scale USD, where Scale is a common multiple of every event   *)
(* amount, so that value_usd / amount is exact.  Timestamps are integer    *)
(* seconds since the epoch; dates are computed in UTC.                     *)
(***************************************************************************)
EXTENDS Integers, Sequences, FiniteSets, TLC

(* ------------------------------ bounds -------------------------------- *)

\* number of events one replay processes
MaxEvents == 3
\* largest transfer quantity of an input record
MaxAmount == 2
\* largest value_usd of an input record
MaxUsd == 1
\* longest transactions list handed to generate_tax_report
MaxTxs == 2
\* longest token_transfers list handed to generate_tax_report
MaxTransfers == 1
\* calculate_token_pnl: transfers in one run, and the largest price quoted
MaxPnlTransfers == 3
MaxPrice == 1
\* concurrent calls: movements handled by one call
MaxCallEvents == 2
\* price cache: the number of times the clock advances (between two calls,
\* or during a fetch)
MaxTicks == 3
\* longest nft_transfers list handed to _calculate_nft_holdings
MaxNftTransfers == 3
\* longest token_transfers list of an address trading two contracts
MaxContractTransfers == 2
\* longest transactions list of an address trading the native asset only
MaxLotEvents == 3

(* --------------------------- program constants ------------------------ *)

\* seconds per day, the divisor of hold_days
SecondsPerDay == 86400
\* the long-term threshold of hold_days
LongTermDays == 365
\* the epoch year of datetime.fromtimestamp
EpochYear == 1970

native_symbol == "ETH"
TokenSymbols == {"TOK"}
Assets == {native_symbol} \cup TokenSymbols
Directions == {"in", "out"}

(* ------------------------------ calendar ------------------------------ *)

IsLeap(y) == (y % 4 = 0 /\ y % 100 # 0) \/ y % 400 = 0

RECURSIVE DaysBeforeYear(_)
DaysBeforeYear(y) ==
    IF y <= EpochYear THEN 0
    ELSE DaysBeforeYear(y - 1) + (IF IsLeap(y - 1) THEN 366 ELSE 365)

\* the calendar years of the model's timestamps
Years == {1970, 2021, 2022}

YearStartTable ==
    [y \in Years \cup {z + 1 : z \in Years} |-> DaysBeforeYear(y) * SecondsPerDay]

\* datetime(year, 1, 1).timestamp()
YearStart(y) == YearStartTable[y]
\* datetime(year, 12, 31, 23, 59, 59).timestamp()
YearEnd(y) == YearStart(y + 1) - 1

AcquiredAt == YearStart(2021)
\* the timestamps an input record can carry: a missing timeStamp (0), an
\* acquisition time, and the times 365 and 366 days after it
Timestamps ==
    {0, AcquiredAt, AcquiredAt + 365 * SecondsPerDay, AcquiredAt + 366 * SecondsPerDay}

YearOfTable ==
    [t \in Timestamps |-> CHOOSE y \in Years : YearStart(y) <= t /\ t <= YearEnd(y)]

\* datetime.fromtimestamp(ts).strftime('%Y-%m-%d %H:%M:%S'): the calendar
\* year and the position inside it
DateOf(ts) == [year |-> YearOfTable[ts], second |-> ts - YearStart(YearOfTable[ts])]

(* ----------------------------- arithmetic ----------------------------- *)

RECURSIVE Gcd(_, _)
Gcd(a, b) == IF b = 0 THEN a ELSE Gcd(b, a % b)

RECURSIVE LcmUpTo(_)
LcmUpTo(k) == IF k <= 1 THEN 1 ELSE (LcmUpTo(k - 1) * k) \div Gcd(LcmUpTo(k - 1), k)

\* money is counted in units of 1/Scale USD
Scale == LcmUpTo(MaxAmount)

RECURSIVE SumAmounts(_)
SumAmounts(lots) ==
    IF lots = <<>> THEN 0 ELSE Head(lots).amount + SumAmounts(Tail(lots))

RECURSIVE SumCost(_)
SumCost(lots) ==
    IF lots = <<>> THEN 0
    ELSE Head(lots).amount * Head(lots).cost_per_unit + SumCost(Tail(lots))

Min(a, b) == IF a <= b THEN a ELSE b

Last(seq) == seq[Len(seq)]

(* --------------------------- input records ---------------------------- *)

\* a formatted native transaction, as far as generate_tax_events reads it
\* (value_usd 0 also stands for a record without the key)
Transactions ==
    [hash : {0}, timestamp : Timestamps, value : 0..MaxAmount,
     direction : Directions, value_usd : 0..MaxUsd]

\* a formatted token transfer, as far as generate_tax_events reads it
TokenTransfers ==
    [hash : {0}, timestamp : Timestamps, value : 0..MaxAmount,
     direction : Directions, token_symbol : TokenSymbols, value_usd : 0..MaxUsd]

(* ------------- BlockchainClient: the records of the feed --------------- *)

\* the address of the request and another party
Address == "0xa11ce"
Parties == {Address, "0xb0b"}

\* the moments of the movements the explorer API returns
FeedTimestamps == {AcquiredAt, AcquiredAt + 366 * SecondsPerDay}

\* items of the explorer API's txlist for the address; value is counted in
\* units of 10 ** decimals wei
RawTransactions ==
    {tx \in [hash : {0}, timeStamp : FeedTimestamps, value : 0..MaxAmount,
             from : Parties, to : Parties] : Address \in {tx.from, tx.to}}

\* items of the explorer API's tokentx for the address; value is counted in
\* units of 10 ** tokenDecimal
RawTokenTransfers ==
    {tx \in [hash : {0}, timeStamp : FeedTimestamps, value : 1..MaxAmount,
             from : Parties, to : Parties, tokenSymbol : TokenSymbols] :
        Address \in {tx.from, tx.to}}

\* _format_transactions: the keys of a formatted record that
\* generate_tax_events reads
format_transactions(items) ==
    [k \in 1..Len(items) |->
        [hash      |-> items[k].hash,
         timestamp |-> items[k].timeStamp,
         value     |-> items[k].value,
         direction |-> IF items[k].from = Address THEN "out"
                       ELSE IF items[k].to = Address THEN "in" ELSE "self"]]

\* _format_token_transfers: the keys of a formatted record that
\* generate_tax_events reads
format_token_transfers(items) ==
    [k \in 1..Len(items) |->
        [hash         |-> items[k].hash,
         timestamp    |-> items[k].timeStamp,
         value        |-> items[k].value,
         token_symbol |-> items[k].tokenSymbol,
         direction    |-> IF items[k].from = Address THEN "out" ELSE "in"]]

(* ------------------------- generate_tax_events ------------------------ *)

\* record.get('value_usd', 0)
ValueUsd(record) == IF "value_usd" \in DOMAIN record THEN record.value_usd ELSE 0

NativeEvent(tx) ==
    [timestamp |-> tx.timestamp,
     date      |-> DateOf(tx.timestamp),
     tx_hash   |-> tx.hash,
     asset     |-> native_symbol,
     amount    |-> tx.value,
     type      |-> IF tx.direction = "out" THEN "sell" ELSE "buy",
     value_usd |-> ValueUsd(tx)]

\* a token event typed the wrong way round
TokenEventInverted(transfer) ==
    [timestamp |-> transfer.timestamp,
     date      |-> DateOf(transfer.timestamp),
     tx_hash   |-> transfer.hash,
     asset     |-> transfer.token_symbol,
     amount    |-> transfer.value,
     type      |-> IF transfer.direction = "out" THEN "buy" ELSE "sell",
     value_usd |-> ValueUsd(transfer)]

TokenEvent(transfer) ==
    [timestamp |-> transfer.timestamp,
     date      |-> DateOf(transfer.timestamp),
     tx_hash   |-> transfer.hash,
     asset     |-> transfer.token_symbol,
     amount    |-> transfer.value,
     type      |-> IF transfer.direction = "out" THEN "sell" ELSE "buy",
     value_usd |-> ValueUsd(transfer)]

\* the events generate_tax_events can put into tax_events: a native
\* transaction of value 0 is dropped before it becomes an event
TaxEvents ==
    {NativeEvent(tx) : tx \in {t \in Transactions : t.value # 0}}
        \cup {TokenEvent(tr) : tr \in TokenTransfers}

\* list.sort(key=timestamp): a stable sort, by insertion from the left
RECURSIVE InsertByTimestamp(_, _)
InsertByTimestamp(sorted, e) ==
    IF sorted = <<>> THEN <<e>>
    ELSE IF Last(sorted).timestamp <= e.timestamp THEN Append(sorted, e)
    ELSE Append(InsertByTimestamp(SubSeq(sorted, 1, Len(sorted) - 1), e), Last(sorted))

RECURSIVE SortByTimestamp(_)
SortByTimestamp(events) ==
    IF events = <<>> THEN <<>>
    ELSE InsertByTimestamp(SortByTimestamp(SubSeq(events, 1, Len(events) - 1)),
                           Last(events))

RECURSIVE NativeEvents(_)
NativeEvents(txs) ==
    IF txs = <<>> THEN <<>>
    ELSE (IF Head(txs).value = 0 THEN <<>> ELSE <<NativeEvent(Head(txs))>>)
            \o NativeEvents(Tail(txs))

RECURSIVE TokenEvents(_)
TokenEvents(transfers) ==
    IF transfers = <<>> THEN <<>>
    ELSE <<TokenEvent(Head(transfers))>> \o TokenEvents(Tail(transfers))

generate_tax_events(txs, transfers) ==
    SortByTimestamp(NativeEvents(txs) \o TokenEvents(transfers))

(* ------------------------ calculate_gains_fifo ------------------------ *)

\* the guard letting only negative quantities through to continue
RejectedNegativeOnly(amount) == amount < 0

\* if amount <= 0: continue
Rejected(amount) == amount <= 0

\* cost_per_unit = value_usd / amount if amount > 0 else 0
CostPerUnit(value_usd, amount) ==
    IF amount > 0 THEN (value_usd * Scale) \div amount ELSE 0

\* a lot that records the whole value_usd as its unit cost
NewLotTotalCost(e) ==
    [amount        |-> e.amount,
     cost_per_unit |-> e.value_usd * Scale,
     timestamp     |-> e.timestamp,
     tx_hash       |-> e.tx_hash]

NewLot(e) ==
    [amount        |-> e.amount,
     cost_per_unit |-> CostPerUnit(e.value_usd, e.amount),
     timestamp     |-> e.timestamp,
     tx_hash       |-> e.tx_hash]

\* the loop charging a partly used lot with its whole quantity
RECURSIVE SellLoopWholeLotCost(_, _, _, _)
SellLoopWholeLotCost(queue, remaining_to_sell, total_cost_basis, used) ==
    IF ~(remaining_to_sell > 0 /\ queue # <<>>)
    THEN [queue |-> queue, remaining_to_sell |-> remaining_to_sell,
          total_cost_basis |-> total_cost_basis, lots_used |-> used]
    ELSE LET lot == Head(queue) IN
         IF lot.amount <= remaining_to_sell
         THEN SellLoopWholeLotCost(Tail(queue),
                       remaining_to_sell - lot.amount,
                       total_cost_basis + lot.amount * lot.cost_per_unit,
                       Append(used, lot))
         ELSE SellLoopWholeLotCost(
                       <<[lot EXCEPT !.amount = lot.amount - remaining_to_sell]>>
                           \o Tail(queue),
                       0,
                       total_cost_basis + lot.amount * lot.cost_per_unit,
                       Append(used, [lot EXCEPT !.amount = remaining_to_sell]))

\* the loop with the partial branch forgetting lot['amount'] -= remaining_to_sell
RECURSIVE SellLoopNoDecrement(_, _, _, _)
SellLoopNoDecrement(queue, remaining_to_sell, total_cost_basis, used) ==
    IF ~(remaining_to_sell > 0 /\ queue # <<>>)
    THEN [queue |-> queue, remaining_to_sell |-> remaining_to_sell,
          total_cost_basis |-> total_cost_basis, lots_used |-> used]
    ELSE LET lot == Head(queue) IN
         IF lot.amount <= remaining_to_sell
         THEN SellLoopNoDecrement(Tail(queue),
                       remaining_to_sell - lot.amount,
                       total_cost_basis + lot.amount * lot.cost_per_unit,
                       Append(used, lot))
         ELSE SellLoopNoDecrement(queue,
                       0,
                       total_cost_basis + remaining_to_sell * lot.cost_per_unit,
                       Append(used, [lot EXCEPT !.amount = remaining_to_sell]))

\* the loop comparing lot['amount'] < remaining_to_sell instead of <=
RECURSIVE SellLoopStrictCompare(_, _, _, _)
SellLoopStrictCompare(queue, remaining_to_sell, total_cost_basis, used) ==
    IF ~(remaining_to_sell > 0 /\ queue # <<>>)
    THEN [queue |-> queue, remaining_to_sell |-> remaining_to_sell,
          total_cost_basis |-> total_cost_basis, lots_used |-> used]
    ELSE LET lot == Head(queue) IN
         IF lot.amount < remaining_to_sell
         THEN SellLoopStrictCompare(Tail(queue),
                       remaining_to_sell - lot.amount,
                       total_cost_basis + lot.amount * lot.cost_per_unit,
                       Append(used, lot))
         ELSE SellLoopStrictCompare(
                       <<[lot EXCEPT !.amount = lot.amount - remaining_to_sell]>>
                           \o Tail(queue),
                       0,
                       total_cost_basis + remaining_to_sell * lot.cost_per_unit,
                       Append(used, [lot EXCEPT !.amount = remaining_to_sell]))

\* the loop putting a partly used lot behind the lots that follow it
RECURSIVE SellLoopRequeue(_, _, _, _)
SellLoopRequeue(queue, remaining_to_sell, total_cost_basis, used) ==
    IF ~(remaining_to_sell > 0 /\ queue # <<>>)
    THEN [queue |-> queue, remaining_to_sell |-> remaining_to_sell,
          total_cost_basis |-> total_cost_basis, lots_used |-> used]
    ELSE LET lot == Head(queue) IN
         IF lot.amount <= remaining_to_sell
         THEN SellLoopRequeue(Tail(queue),
                       remaining_to_sell - lot.amount,
                       total_cost_basis + lot.amount * lot.cost_per_unit,
                       Append(used, lot))
         ELSE SellLoopRequeue(
                       Tail(queue)
                           \o <<[lot EXCEPT !.amount = lot.amount - remaining_to_sell]>>,
                       0,
                       total_cost_basis + remaining_to_sell * lot.cost_per_unit,
                       Append(used, [lot EXCEPT !.amount = remaining_to_sell]))

\* the loop taking from the newest lot (holdings[asset][-1]) first
RECURSIVE SellLoopLastLot(_, _, _, _)
SellLoopLastLot(queue, remaining_to_sell, total_cost_basis, used) ==
    IF ~(remaining_to_sell > 0 /\ queue # <<>>)
    THEN [queue |-> queue, remaining_to_sell |-> remaining_to_sell,
          total_cost_basis |-> total_cost_basis, lots_used |-> used]
    ELSE LET lot   == Last(queue)
             front == SubSeq(queue, 1, Len(queue) - 1)
         IN  IF lot.amount <= remaining_to_sell
             THEN SellLoopLastLot(front,
                       remaining_to_sell - lot.amount,
                       total_cost_basis + lot.amount * lot.cost_per_unit,
                       Append(used, lot))
             ELSE SellLoopLastLot(
                       Append(front, [lot EXCEPT !.amount = lot.amount - remaining_to_sell]),
                       0,
                       total_cost_basis + remaining_to_sell * lot.cost_per_unit,
                       Append(used, [lot EXCEPT !.amount = remaining_to_sell]))

\* the while loop of a sell: the locals after the loop has ended
RECURSIVE SellLoop(_, _, _, _)
SellLoop(queue, remaining_to_sell, total_cost_basis, used) ==
    IF ~(remaining_to_sell > 0 /\ queue # <<>>)
    THEN [queue |-> queue, remaining_to_sell |-> remaining_to_sell,
          total_cost_basis |-> total_cost_basis, lots_used |-> used]
    ELSE LET lot == Head(queue) IN
         IF lot.amount <= remaining_to_sell
         THEN SellLoop(Tail(queue),
                       remaining_to_sell - lot.amount,
                       total_cost_basis + lot.amount * lot.cost_per_unit,
                       Append(used, lot))
         ELSE SellLoop(<<[lot EXCEPT !.amount = lot.amount - remaining_to_sell]>>
                           \o Tail(queue),
                       0,
                       total_cost_basis + remaining_to_sell * lot.cost_per_unit,
                       Append(used, [lot EXCEPT !.amount = remaining_to_sell]))

RECURSIVE MinTimestamp(_)
MinTimestamp(lots) ==
    IF Len(lots) = 1 THEN Head(lots).timestamp
    ELSE Min(Head(lots).timestamp, MinTimestamp(Tail(lots)))

\* the classification with a missing acquisition time reported as unknown
HoldPeriodUnknownAtZero(used, sell_time) ==
    IF used = <<>> \/ MinTimestamp(used) = 0 THEN "unknown"
    ELSE IF sell_time - MinTimestamp(used) > LongTermDays * SecondsPerDay
         THEN "long_term" ELSE "short_term"

\* the classification with the boundary test hold_days >= 365
HoldPeriodInclusive(used, sell_time) ==
    IF used = <<>> THEN "unknown"
    ELSE LET earliest_buy == MinTimestamp(used)
             hold_seconds == IF earliest_buy # 0 THEN sell_time - earliest_buy ELSE 0
         IN  IF hold_seconds >= LongTermDays * SecondsPerDay
             THEN "long_term" ELSE "short_term"

\* hold_days > 365, with hold_days = (sell_time - earliest_buy) / 86400
\* if earliest_buy else 0
HoldPeriod(used, sell_time) ==
    IF used = <<>> THEN "unknown"
    ELSE LET earliest_buy == MinTimestamp(used)
             hold_seconds == IF earliest_buy # 0 THEN sell_time - earliest_buy ELSE 0
         IN  IF hold_seconds > LongTermDays * SecondsPerDay
             THEN "long_term" ELSE "short_term"

\* a record reporting only the matched quantity as amount_sold
GainRecordMatchedOnly(e, loop) ==
    [date        |-> e.date,
     asset       |-> e.asset,
     amount_sold |-> e.amount - loop.remaining_to_sell,
     proceeds    |-> e.value_usd * Scale,
     cost_basis  |-> loop.total_cost_basis,
     gain_loss   |-> e.value_usd * Scale - loop.total_cost_basis,
     hold_period |-> HoldPeriod(loop.lots_used, e.timestamp),
     tx_hash     |-> e.tx_hash]

GainRecord(e, loop) ==
    [date        |-> e.date,
     asset       |-> e.asset,
     amount_sold |-> e.amount,
     proceeds    |-> e.value_usd * Scale,
     cost_basis  |-> loop.total_cost_basis,
     gain_loss   |-> e.value_usd * Scale - loop.total_cost_basis,
     hold_period |-> HoldPeriod(loop.lots_used, e.timestamp),
     tx_hash     |-> e.tx_hash]

\* one iteration of for event in tax_events, on the pair (holdings, gains)
ApplyEvent(ledger, e) ==
    IF Rejected(e.amount) THEN ledger
    ELSE IF e.type = "buy"
    THEN [ledger EXCEPT !.holdings[e.asset] = Append(@, NewLot(e))]
    ELSE IF e.type = "sell"
    THEN LET loop == SellLoop(ledger.holdings[e.asset], e.amount, 0, <<>>) IN
         [holdings |-> [ledger.holdings EXCEPT ![e.asset] = loop.queue],
          gains    |-> Append(ledger.gains, GainRecord(e, loop))]
    ELSE ledger

RECURSIVE ReplayFrom(_, _)
ReplayFrom(ledger, events) ==
    IF events = <<>> THEN ledger
    ELSE ReplayFrom(ApplyEvent(ledger, Head(events)), Tail(events))

EmptyLedger == [holdings |-> [a \in Assets |-> <<>>], gains |-> <<>>]

\* the gains list calculate_gains_fifo returns for a list of events
calculate_gains_fifo(events) == ReplayFrom(EmptyLedger, events).gains

(* ------------------------ generate_tax_summary ------------------------ *)

IncomeTypes == {"airdrop", "staking_reward", "mining_reward"}

\* the events calculate_income_events turns into income records
calculate_income_events(events) == SelectSeq(events, LAMBDA e : e.type \in IncomeTypes)

Abs(x) == IF x < 0 THEN -x ELSE x

\* for income in income_events: the sum of fair_market_value (the value_usd of the event)
RECURSIVE SumFairMarketValue(_)
SumFairMarketValue(income_events) ==
    IF income_events = <<>> THEN 0
    ELSE Head(income_events).value_usd * Scale + SumFairMarketValue(Tail(income_events))

EmptySummary ==
    [total_disposals |-> 0,
     short_term_gains |-> 0, short_term_losses |-> 0,
     long_term_gains |-> 0, long_term_losses |-> 0,
     assets_traded |-> {}]

\* the loop adding the signed gain_loss to the losses
RECURSIVE SummaryLoopSignedLoss(_, _)
SummaryLoopSignedLoss(summary, records) ==
    IF records = <<>> THEN summary
    ELSE LET gain == Head(records)
             gain_loss == gain.gain_loss
             traded == [summary EXCEPT !.assets_traded = @ \cup {gain.asset}]
         IN  SummaryLoopSignedLoss(
                 IF gain.hold_period = "long_term"
                 THEN IF gain_loss >= 0
                      THEN [traded EXCEPT !.long_term_gains = @ + gain_loss]
                      ELSE [traded EXCEPT !.long_term_losses = @ + gain_loss]
                 ELSE IF gain_loss >= 0
                      THEN [traded EXCEPT !.short_term_gains = @ + gain_loss]
                      ELSE [traded EXCEPT !.short_term_losses = @ + gain_loss],
                 Tail(records))

\* the loop with a short-term branch for hold_period 'short_term' only
RECURSIVE SummaryLoopKnownOnly(_, _)
SummaryLoopKnownOnly(summary, records) ==
    IF records = <<>> THEN summary
    ELSE LET gain == Head(records)
             gain_loss == gain.gain_loss
             traded == [summary EXCEPT !.assets_traded = @ \cup {gain.asset}]
         IN  SummaryLoopKnownOnly(
                 IF gain.hold_period = "long_term"
                 THEN IF gain_loss >= 0
                      THEN [traded EXCEPT !.long_term_gains = @ + gain_loss]
                      ELSE [traded EXCEPT !.long_term_losses = @ + Abs(gain_loss)]
                 ELSE IF gain.hold_period = "short_term"
                 THEN IF gain_loss >= 0
                      THEN [traded EXCEPT !.short_term_gains = @ + gain_loss]
                      ELSE [traded EXCEPT !.short_term_losses = @ + Abs(gain_loss)]
                 ELSE traded,
                 Tail(records))

\* for gain in gains: the four buckets and the assets seen
RECURSIVE SummaryLoop(_, _)
SummaryLoop(summary, records) ==
    IF records = <<>> THEN summary
    ELSE LET gain == Head(records)
             gain_loss == gain.gain_loss
             traded == [summary EXCEPT !.assets_traded = @ \cup {gain.asset}]
         IN  SummaryLoop(
                 IF gain.hold_period = "long_term"
                 THEN IF gain_loss >= 0
                      THEN [traded EXCEPT !.long_term_gains = @ + gain_loss]
                      ELSE [traded EXCEPT !.long_term_losses = @ + Abs(gain_loss)]
                 ELSE IF gain_loss >= 0
                      THEN [traded EXCEPT !.short_term_gains = @ + gain_loss]
                      ELSE [traded EXCEPT !.short_term_losses = @ + Abs(gain_loss)],
                 Tail(records))

\* generate_tax_summary(gains, income_events, tax_events).  fee_usd is 0 on
\* every event: a native event takes it from gas_fee_usd, a key the
\* transaction records do not have, and a token event sets it to 0.
generate_tax_summary(records, income_events, events) ==
    LET buckets == SummaryLoop([EmptySummary EXCEPT !.total_disposals = Len(records)],
                               records)
    IN  [total_transactions |-> Len(events),
         total_disposals    |-> buckets.total_disposals,
         short_term_gains   |-> buckets.short_term_gains,
         short_term_losses  |-> buckets.short_term_losses,
         long_term_gains    |-> buckets.long_term_gains,
         long_term_losses   |-> buckets.long_term_losses,
         net_short_term     |-> buckets.short_term_gains - buckets.short_term_losses,
         net_long_term      |-> buckets.long_term_gains - buckets.long_term_losses,
         total_income       |-> SumFairMarketValue(income_events),
         total_fees         |-> 0 * Len(events),
         assets_traded      |-> buckets.assets_traded]

(* ---------------------------- export_to_csv --------------------------- *)

\* f"{x:.2f}" of an amount of x / Scale USD: the number of cents nearest to it
Fmt2(x) ==
    IF x >= 0 THEN (x * 200 + Scale) \div (2 * Scale)
    ELSE -((-x * 200 + Scale) \div (2 * Scale))

GenericFieldnames ==
    <<"Date Sold", "Asset", "Amount", "Proceeds (USD)", "Cost Basis (USD)",
      "Gain/Loss (USD)", "Hold Period", "TX Hash">>

TurbotaxFieldnames ==
    <<"Description", "Date Acquired", "Date Sold", "Proceeds", "Cost Basis",
      "Adjustment Code", "Adjustment Amount", "Gain or Loss">>

KoinlyFieldnames ==
    <<"Date", "Sent Amount", "Sent Currency", "Received Amount", "Received Currency",
      "Fee Amount", "Fee Currency", "Net Worth Amount", "Net Worth Currency",
      "Label", "TxHash">>

\* writer.writeheader()
HeaderRow(fieldnames) == [fieldnames |-> fieldnames]

\* writer.writerow({...}): the row as the dict handed to the writer
GenericRow(gain) ==
    "Date Sold" :> gain.date @@ "Asset" :> gain.asset @@ "Amount" :> gain.amount_sold
    @@ "Proceeds (USD)" :> Fmt2(gain.proceeds)
    @@ "Cost Basis (USD)" :> Fmt2(gain.cost_basis)
    @@ "Gain/Loss (USD)" :> Fmt2(gain.gain_loss)
    @@ "Hold Period" :> gain.hold_period @@ "TX Hash" :> gain.tx_hash

TurbotaxRow(gain) ==
    "Description" :> [amount_sold |-> gain.amount_sold, asset |-> gain.asset]
    @@ "Date Acquired" :> "Various" @@ "Date Sold" :> gain.date
    @@ "Proceeds" :> Fmt2(gain.proceeds) @@ "Cost Basis" :> Fmt2(gain.cost_basis)
    @@ "Adjustment Code" :> "" @@ "Adjustment Amount" :> ""
    @@ "Gain or Loss" :> Fmt2(gain.gain_loss)

\* the format argument of an export request: the three named profiles and
\* any other string
FormatTypes == {"generic", "turbotax", "koinly", "other"}

\* the rows written to output, in order; no row at all for an unknown format
export_to_csv(records, format_type) ==
    IF format_type = "generic"
    THEN <<HeaderRow(GenericFieldnames)>> \o [i \in 1..Len(records) |-> GenericRow(records[i])]
    ELSE IF format_type = "turbotax"
    THEN <<HeaderRow(TurbotaxFieldnames)>> \o [i \in 1..Len(records) |-> TurbotaxRow(records[i])]
    ELSE IF format_type = "koinly"
    THEN <<HeaderRow(KoinlyFieldnames)>>
    ELSE <<>>

(* ------------------------- generate_tax_report ------------------------ *)

\* the year argument of a request; 0 stands for None (both are falsy)
YearArgs == {0} \cup Years

InYear(ts, y) == YearStart(y) <= ts /\ ts <= YearEnd(y)

SelectInYear(events, y) == SelectSeq(events, LAMBDA e : InYear(e.timestamp, y))

generate_tax_report(txs, transfers, y) ==
    LET all_events == generate_tax_events(txs, transfers)
        events     == IF y # 0 THEN SelectInYear(all_events, y) ELSE all_events
        records    == calculate_gains_fifo(events)
        income     == calculate_income_events(events)
    IN  [year          |-> y,   \* year or 'All Time': 0 stands for 'All Time'
         tax_events    |-> events,
         capital_gains |-> records,
         income_events |-> income,
         summary       |-> generate_tax_summary(records, income, events),
         method        |-> "FIFO"]

(* ----------------------- _calculate_nft_holdings ---------------------- *)

NftContracts == {"0xab"}

NftTokenIds == {"1", "2"}

\* a formatted ERC-721 transfer of the address; direction is 'out' or 'in'
NftTransfers ==
    [timestamp : {0}, contract_address : NftContracts, token_id : NftTokenIds,
     direction : Directions]

\* key = f"{transfer['contract_address']}_{transfer['token_id']}"
NftKey(t) == [contract_address |-> t.contract_address, token_id |-> t.token_id]

NftKeys == {NftKey(t) : t \in NftTransfers}

\* the dict holdings is the list of its (key, value) items in insertion order
HasNft(held, key) == \E i \in 1..Len(held) : held[i].key = key

\* holdings[key] = {...}: a key already present keeps its place
PutNft(held, t) ==
    LET item == [key |-> NftKey(t),
                 value |-> [contract_address |-> t.contract_address,
                            token_id |-> t.token_id]]
    IN  IF HasNft(held, item.key)
        THEN [i \in 1..Len(held) |-> IF held[i].key = item.key THEN item ELSE held[i]]
        ELSE Append(held, item)

\* del holdings[key]
DelNft(held, key) == SelectSeq(held, LAMBDA item : item.key # key)

\* for transfer in nft_transfers, in list order
RECURSIVE NftLoop(_, _)
NftLoop(held, transfers) ==
    IF transfers = <<>> THEN held
    ELSE LET t == Head(transfers) IN
         NftLoop(IF t.direction = "in" THEN PutNft(held, t)
                 ELSE IF HasNft(held, NftKey(t)) THEN DelNft(held, NftKey(t))
                 ELSE held,
                 Tail(transfers))

\* return list(holdings.values())
calculate_nft_holdings(transfers) ==
    LET held == NftLoop(<<>>, transfers) IN [i \in 1..Len(held) |-> held[i].value]

\* get_nft_transfers asks for sort=desc: the k-th record of the list is
\* newer than the one behind it
NewestFirst(list) ==
    [k \in 1..Len(list) |-> [list[k] EXCEPT !.timestamp = AcquiredAt + (Len(list) - k)]]

(* --------------------------- get_token_prices ------------------------- *)

CACHE_DURATION == 300

\* the token_ids argument: None, or a list of CoinGecko ids
NoneArg == [is_none |-> TRUE, ids |-> <<>>]

TokenIdArgs ==
    {NoneArg} \cup {[is_none |-> FALSE, ids |-> l] : l \in {<<"ethereum">>, <<"chainlink">>}}

\* cache_key = f"{','.join(token_ids or ['ethereum'])}-{vs_currency}"
CacheKey(token_ids) ==
    [ids         |-> IF token_ids.is_none \/ token_ids.ids = <<>>
                     THEN <<"ethereum">> ELSE token_ids.ids,
     vs_currency |-> "usd"]

\* if token_ids is None: token_ids = [the major tokens]
FetchedIds(token_ids) ==
    IF token_ids.is_none
    THEN <<"ethereum", "bitcoin", "tether", "usd-coin", "binancecoin", "matic-network">>
    ELSE token_ids.ids

\* the age test letting an entry of exactly CACHE_DURATION seconds through
FreshInclusive(age) == age <= CACHE_DURATION

\* time.time() - _cache_time.get(cache_key, 0) < CACHE_DURATION
Fresh(age) == age < CACHE_DURATION

\* _cache_time.get(cache_key, 0)
CacheTimeOf(times, cache_key) == IF cache_key \in DOMAIN times THEN times[cache_key] ELSE 0

\* the branch returning _price_cache[cache_key]
ServedFromCache(cache, times, cache_key, clock) ==
    /\ cache_key \in DOMAIN cache
    /\ Fresh(clock - CacheTimeOf(times, cache_key))

\* d[k] = v on a dict
Store(d, k, v) == [x \in DOMAIN d \cup {k} |-> IF x = k THEN v ELSE d[x]]

\* the seconds the clock can advance by between two calls
Ticks == {1, CACHE_DURATION - 1}

\* the seconds a fetch takes (0: within the resolution of the clock)
FetchSeconds == {0, 1}

(* ------------------------- calculate_token_pnl ------------------------ *)

\* contract_address of a transfer record: missing (''), one contract in two
\* spellings, and a second contract
ContractAddresses == {"", "0xAB", "0xab", "0xcd"}

\* str.lower() on the addresses above
Lower(address) == IF address = "0xAB" THEN "0xab" ELSE address

TokenKeys == {Lower(a) : a \in ContractAddresses} \ {""}

\* a symbol of TOKEN_COINGECKO_MAP, so that a price can come back for it
PricedSymbols == {"LINK"}

\* get_token_price_by_symbol(symbol) or 0: a quote of the price service, 0
\* when the symbol is not mapped or the service returned no price
CurrentPrice(symbol, quote) == IF symbol \in PricedSymbols THEN quote ELSE 0

Quotes == 0..MaxPrice

PnlTimestamps == {AcquiredAt, AcquiredAt + 365 * SecondsPerDay}

PnlTransfers ==
    [hash : {0}, timestamp : PnlTimestamps, value : 0..MaxAmount,
     direction : Directions, token_symbol : PricedSymbols,
     contract_address : ContractAddresses]

\* the default entry of token_trades
NewTokenData(token_key) ==
    [token_address |-> token_key, symbol |-> "",
     buys |-> <<>>, sells |-> <<>>, holdings |-> <<>>,
     total_bought |-> 0, total_sold |-> 0, total_cost |-> 0,
     total_proceeds |-> 0, realized_pnl |-> 0, current_balance |-> 0]

\* token_trades is the list of its entries in the order of their first use
HasKey(trades, token_key) == \E i \in 1..Len(trades) : trades[i].token_address = token_key

KeyIndex(trades, token_key) ==
    CHOOSE i \in 1..Len(trades) : trades[i].token_address = token_key

\* token_trades[token_key], the default entry if the key is new
TokenData(trades, token_key) ==
    IF HasKey(trades, token_key) THEN trades[KeyIndex(trades, token_key)]
    ELSE NewTokenData(token_key)

PutTokenData(trades, data) ==
    IF HasKey(trades, data.token_address)
    THEN [trades EXCEPT ![KeyIndex(trades, data.token_address)] = data]
    ELSE Append(trades, data)

\* the direction == 'in' branch
PnlBuyBranch(data, t, price) ==
    LET amount     == t.value
        cost_basis == IF price # 0 THEN amount * price * Scale ELSE 0
    IN  [data EXCEPT
            !.symbol = t.token_symbol,
            !.buys = Append(@, [amount |-> amount, price |-> price * Scale,
                                cost |-> cost_basis, timestamp |-> t.timestamp,
                                tx_hash |-> t.hash]),
            !.holdings = Append(@, [amount |-> amount,
                                    cost_per_unit |-> price * Scale,
                                    timestamp |-> t.timestamp]),
            !.total_bought = @ + amount,
            !.total_cost = @ + cost_basis,
            !.current_balance = @ + amount]

\* the loop charging the whole head lot when only a part of it is sold
RECURSIVE PnlSellLoopWholeLotCost(_, _, _)
PnlSellLoopWholeLotCost(queue, remaining, cost_basis) ==
    IF ~(remaining > 0 /\ queue # <<>>)
    THEN [queue |-> queue, remaining_to_sell |-> remaining, cost_basis |-> cost_basis]
    ELSE LET holding == Head(queue) IN
         IF holding.amount <= remaining
         THEN PnlSellLoopWholeLotCost(Tail(queue), remaining - holding.amount,
                          cost_basis + holding.amount * holding.cost_per_unit)
         ELSE PnlSellLoopWholeLotCost(
                          <<[holding EXCEPT !.amount = holding.amount - remaining]>>
                              \o Tail(queue),
                          0,
                          cost_basis + holding.amount * holding.cost_per_unit)

\* while remaining_to_sell > 0 and token_data['holdings']
RECURSIVE PnlSellLoop(_, _, _)
PnlSellLoop(queue, remaining, cost_basis) ==
    IF ~(remaining > 0 /\ queue # <<>>)
    THEN [queue |-> queue, remaining_to_sell |-> remaining, cost_basis |-> cost_basis]
    ELSE LET holding == Head(queue) IN
         IF holding.amount <= remaining
         THEN PnlSellLoop(Tail(queue), remaining - holding.amount,
                          cost_basis + holding.amount * holding.cost_per_unit)
         ELSE PnlSellLoop(<<[holding EXCEPT !.amount = holding.amount - remaining]>>
                              \o Tail(queue),
                          0,
                          cost_basis + remaining * holding.cost_per_unit)

\* the else branch: a sell
PnlSellBranch(data, t, price) ==
    LET amount       == t.value
        proceeds     == IF price # 0 THEN amount * price * Scale ELSE 0
        loop         == PnlSellLoop(data.holdings, amount, 0)
        realized_pnl == proceeds - loop.cost_basis
    IN  [data EXCEPT
            !.symbol = t.token_symbol,
            !.holdings = loop.queue,
            !.sells = Append(@, [amount |-> amount, price |-> price * Scale,
                                 proceeds |-> proceeds, cost_basis |-> loop.cost_basis,
                                 realized_pnl |-> realized_pnl,
                                 timestamp |-> t.timestamp, tx_hash |-> t.hash]),
            !.total_sold = @ + amount,
            !.total_proceeds = @ + proceeds,
            !.realized_pnl = @ + realized_pnl,
            !.current_balance = @ - amount]

\* one iteration of for transfer in sorted_transfers, on token_trades
PnlStep(trades, t, price) ==
    LET token_key == Lower(t.contract_address) IN
    IF token_key = "" THEN trades
    ELSE IF t.direction = "in"
    THEN PutTokenData(trades, PnlBuyBranch(TokenData(trades, token_key), t, price))
    ELSE PutTokenData(trades, PnlSellBranch(TokenData(trades, token_key), t, price))

\* sum(h['amount'] * h['cost_per_unit'] for h in data['holdings'])
RECURSIVE RemainingCost(_)
RemainingCost(queue) ==
    IF queue = <<>> THEN 0
    ELSE Head(queue).amount * Head(queue).cost_per_unit + RemainingCost(Tail(queue))

\* the entry of results for one token, at the price quoted for its symbol
PnlResult(data, quote) ==
    LET price          == CurrentPrice(data.symbol, quote)
        current_value  == data.current_balance * price * Scale
        unrealized_pnl == current_value - RemainingCost(data.holdings)
    IN  [token_address   |-> data.token_address,
         symbol          |-> data.symbol,
         total_bought    |-> data.total_bought,
         total_sold      |-> data.total_sold,
         current_balance |-> data.current_balance,
         total_cost      |-> data.total_cost,
         total_proceeds  |-> data.total_proceeds,
         realized_pnl    |-> data.realized_pnl,
         unrealized_pnl  |-> unrealized_pnl,
         total_pnl       |-> data.realized_pnl + unrealized_pnl,
         current_price   |-> price * Scale,
         current_value   |-> current_value,
         num_buys        |-> Len(data.buys),
         num_sells       |-> Len(data.sells)]

\* results.sort(key=total_pnl, reverse=True): stable, largest first
RECURSIVE InsertByTotalPnl(_, _)
InsertByTotalPnl(sorted, r) ==
    IF sorted = <<>> THEN <<r>>
    ELSE IF Last(sorted).total_pnl >= r.total_pnl THEN Append(sorted, r)
    ELSE Append(InsertByTotalPnl(SubSeq(sorted, 1, Len(sorted) - 1), r), Last(sorted))

RECURSIVE SortByTotalPnl(_)
SortByTotalPnl(list) ==
    IF list = <<>> THEN <<>>
    ELSE InsertByTotalPnl(SortByTotalPnl(SubSeq(list, 1, Len(list) - 1)), Last(list))

(* ------------------------ Spec: the replay loop ----------------------- *)

VARIABLES
    holdings,           \* asset -> list of open lots
    gains,              \* the disposal records emitted so far
    event,              \* the event of the last loop iteration
    lots_used,          \* lots_used of the last iteration (empty unless a sell)
    remaining_to_sell,  \* remaining_to_sell after the last iteration's loop
    acquired,           \* asset -> quantity put into holdings so far
    matched,            \* asset -> quantity taken out of lots by sells so far
    processed,          \* number of events iterated over
    pc,                 \* "loop" while iterating, "done" after return gains
    transactions,       \* the transactions list of the address
    token_transfers,    \* the token_transfers list of the address
    report,             \* the last report generate_tax_report returned
    token_trades,       \* calculate_token_pnl: the entries of token_trades
    transfer,           \* the transfer of its last loop iteration
    current_price,      \* the price looked up in that iteration
    pnl_processed,      \* number of transfers iterated over
    pnl_pc,             \* "loop" while iterating, "done" after return results
    results,            \* the list calculate_token_pnl returned
    fifo,               \* token -> the ledger of calculate_gains_fifo run on
                        \* the same movements of that token
    call_kind,          \* request -> "tax" or "pnl", the computation it runs
    call_local,         \* the local objects of the running calls
    call_seen,          \* request -> the movements its call has iterated over
    call_order,         \* the requests in the order their calls took steps
    format_type,        \* the format of the last export request
    csv_data,           \* the rows export_to_csv returned for it
    price_cache,        \* _price_cache: cache_key -> data
    cache_time,         \* _cache_time: cache_key -> time of the store
    now,                \* time.time()
    ticks,              \* number of times the clock has advanced
    price_call,         \* the last call of get_token_prices and its outcome
    nft_transfers,      \* the nft_transfers list of the address, as delivered
    nft_holdings,       \* nft_holdings of the last get_address_info
    nft_pc              \* "request" before get_address_info has run, then "done"

ledgerVars == <<holdings, gains, event, lots_used, remaining_to_sell, acquired,
                matched, processed, pc>>
reportVars == <<transactions, token_transfers, report>>
pnlVars == <<token_trades, transfer, current_price, pnl_processed, pnl_pc, results, fifo>>
callVars == <<call_kind, call_local, call_seen, call_order>>
exportVars == <<format_type, csv_data>>
cacheVars == <<price_cache, cache_time, now, ticks, price_call>>
nftVars == <<nft_transfers, nft_holdings, nft_pc>>
auxVars == <<pnlVars, callVars, exportVars, cacheVars, nftVars>>
vars == <<ledgerVars, reportVars, auxVars>>

NoEvent ==
    [timestamp |-> 0, date |-> DateOf(0), tx_hash |-> 0, asset |-> native_symbol,
     amount |-> 0, type |-> "none", value_usd |-> 0]

NoReport ==
    [year |-> 0, tax_events |-> <<>>, capital_gains |-> <<>>, income_events |-> <<>>,
     summary |-> generate_tax_summary(<<>>, <<>>, <<>>), method |-> "none"]

NoTransfer ==
    [hash |-> 0, timestamp |-> 0, value |-> 0, direction |-> "none",
     token_symbol |-> "", contract_address |-> ""]

\* the ledger of one token before its first movement
TokenLedger == [holdings |-> [a \in PricedSymbols |-> <<>>], gains |-> <<>>]

PnlInit ==
    /\ token_trades = <<>>
    /\ transfer = NoTransfer
    /\ current_price = 0
    /\ pnl_processed = 0
    /\ pnl_pc = "loop"
    /\ results = <<>>
    /\ fifo = [k \in TokenKeys |-> TokenLedger]

\* two requests served at the same time, for two addresses
Requests == {1, 2}

CallKinds == {"tax", "pnl"}

\* the locals of a call that has not iterated yet: holdings and gains of
\* calculate_gains_fifo, token_trades of calculate_token_pnl
NewLocals == [ledger |-> TokenLedger, trades |-> <<>>]

CallsInit ==
    /\ call_kind = [r \in Requests |-> "tax"]
    /\ call_local = [r \in Requests |-> NewLocals]
    /\ call_seen = [r \in Requests |-> <<>>]
    /\ call_order = <<>>

ExportInit ==
    /\ format_type = "none"
    /\ csv_data = <<>>

NoPriceCall ==
    [cache_key |-> CacheKey(NoneArg), source |-> "none", wanted |-> <<>>,
     ids |-> <<>>, price |-> 0, age |-> -1, at |-> 0]

\* the module as imported: both dicts empty
CacheInit ==
    /\ price_cache = <<>>
    /\ cache_time = <<>>
    /\ now = AcquiredAt
    /\ ticks = 0
    /\ price_call = NoPriceCall

NftInit ==
    /\ nft_transfers = <<>>
    /\ nft_holdings = <<>>
    /\ nft_pc = "request"

AuxInit == PnlInit /\ CallsInit /\ ExportInit /\ CacheInit /\ NftInit

LedgerInit ==
    /\ holdings = [a \in Assets |-> <<>>]
    /\ gains = <<>>
    /\ event = NoEvent
    /\ lots_used = <<>>
    /\ remaining_to_sell = 0
    /\ acquired = [a \in Assets |-> 0]
    /\ matched = [a \in Assets |-> 0]
    /\ processed = 0
    /\ pc = "loop"

Init ==
    /\ LedgerInit
    /\ transactions = <<>>
    /\ token_transfers = <<>>
    /\ report = NoReport
    /\ AuxInit

\* the next element of tax_events: the list is sorted by timestamp and the
\* k-th record carries hash k
NextEvent(e) ==
    /\ pc = "loop"
    /\ processed < MaxEvents
    /\ e.timestamp >= event.timestamp
    /\ processed' = processed + 1
    /\ event' = [e EXCEPT !.tx_hash = processed + 1]

\* if amount <= 0: continue
Skip ==
    \E e \in TaxEvents :
        /\ NextEvent(e)
        /\ Rejected(e.amount)
        /\ lots_used' = <<>>
        /\ remaining_to_sell' = 0
        /\ UNCHANGED <<holdings, gains, acquired, matched, pc>>
        /\ UNCHANGED <<reportVars, auxVars>>

Buy ==
    \E e \in TaxEvents :
        /\ NextEvent(e)
        /\ ~Rejected(e.amount)
        /\ e.type = "buy"
        /\ holdings' = [holdings EXCEPT ![e.asset] = Append(@, NewLot(event'))]
        /\ acquired' = [acquired EXCEPT ![e.asset] = @ + e.amount]
        /\ lots_used' = <<>>
        /\ remaining_to_sell' = 0
        /\ UNCHANGED <<gains, matched, pc>>
        /\ UNCHANGED <<reportVars, auxVars>>

Sell ==
    \E e \in TaxEvents :
        /\ NextEvent(e)
        /\ ~Rejected(e.amount)
        /\ e.type = "sell"
        /\ LET loop == SellLoop(holdings[e.asset], e.amount, 0, <<>>) IN
            /\ holdings' = [holdings EXCEPT ![e.asset] = loop.queue]
            /\ gains' = Append(gains, GainRecord(event', loop))
            /\ lots_used' = loop.lots_used
            /\ remaining_to_sell' = loop.remaining_to_sell
            /\ matched' = [matched EXCEPT ![e.asset] = @ + (e.amount - loop.remaining_to_sell)]
        /\ UNCHANGED <<acquired, pc>>
        /\ UNCHANGED <<reportVars, auxVars>>

\* return gains
Return ==
    /\ pc = "loop"
    /\ pc' = "done"
    /\ UNCHANGED <<holdings, gains, event, lots_used, remaining_to_sell, acquired,
                   matched, processed>>
    /\ UNCHANGED <<reportVars, auxVars>>

Next == Skip \/ Buy \/ Sell \/ Return

Spec == Init /\ [][Next]_vars

(* ---------------- SpecReport: generate_tax_report as a whole ---------- *)

\* the lists of at most n records of a set
ListsUpTo(n, records) == UNION {[1..k -> records] : k \in 0..n}

\* the k-th record of a list carries hash base + k
WithHashes(list, base) == [k \in 1..Len(list) |-> [list[k] EXCEPT !.hash = base + k]]

InitReport ==
    /\ LedgerInit
    /\ transactions \in {WithHashes(l, 0) : l \in ListsUpTo(MaxTxs, Transactions)}
    /\ token_transfers \in
           {WithHashes(l, MaxTxs) : l \in ListsUpTo(MaxTransfers, TokenTransfers)}
    /\ report = NoReport
    /\ AuxInit

\* a request whose replay appends to the gains list of the request before it
TaxReportKeptGains ==
    \E y \in YearArgs :
        /\ report' = [generate_tax_report(transactions, token_transfers, y)
                         EXCEPT !.capital_gains = report.capital_gains \o @]
        /\ UNCHANGED <<transactions, token_transfers>>
        /\ UNCHANGED <<ledgerVars, auxVars>>

\* a request for the tax report of the address, with or without a year
TaxReport ==
    \E y \in YearArgs :
        /\ report' = generate_tax_report(transactions, token_transfers, y)
        /\ UNCHANGED <<transactions, token_transfers>>
        /\ UNCHANGED <<ledgerVars, auxVars>>

NextReport == TaxReport

SpecReport == InitReport /\ [][NextReport]_vars

(* ------- SpecContracts: the report of an address trading two contracts ---- *)

\* token transfers of two contracts whose tokens carry the same symbol
ContractTransfers ==
    [hash : {0}, timestamp : {AcquiredAt}, value : 1..MaxAmount,
     direction : Directions, token_symbol : TokenSymbols, value_usd : 0..MaxUsd,
     contract_address : {"0xab", "0xcd"}]

\* the native transactions of that address
ContractTransactions ==
    {tx \in Transactions : tx.timestamp = AcquiredAt /\ tx.value = 1 /\ tx.value_usd = 1}

InitContracts ==
    /\ LedgerInit
    /\ transactions \in {WithHashes(l, 0) : l \in ListsUpTo(1, ContractTransactions)}
    /\ token_transfers \in
           {WithHashes(l, MaxTxs) : l \in ListsUpTo(MaxContractTransfers, ContractTransfers)}
    /\ report = NoReport
    /\ AuxInit

NextContracts == TaxReport

SpecContracts == InitContracts /\ [][NextContracts]_vars

(* ------- SpecFeed: the report of the records BlockchainClient formats ---- *)

\* the lists get_address_info hands to the route
InitFeed ==
    /\ LedgerInit
    /\ transactions \in
           {WithHashes(format_transactions(l), 0) : l \in ListsUpTo(MaxTxs, RawTransactions)}
    /\ token_transfers \in
           {WithHashes(format_token_transfers(l), MaxTxs) :
                l \in ListsUpTo(MaxTransfers, RawTokenTransfers)}
    /\ report = NoReport
    /\ AuxInit

NextFeed == TaxReport

SpecFeed == InitFeed /\ [][NextFeed]_vars

(* ------- SpecLots: the report of an address trading one asset ---------- *)

\* valued native transactions of one day
LotTransactions == {tx \in Transactions : tx.timestamp = AcquiredAt /\ tx.value > 0}

InitLots ==
    /\ LedgerInit
    /\ transactions \in {WithHashes(l, 0) : l \in ListsUpTo(MaxLotEvents, LotTransactions)}
    /\ token_transfers = <<>>
    /\ report = NoReport
    /\ AuxInit

NextLots == TaxReport

SpecLots == InitLots /\ [][NextLots]_vars

(* ----------------- SpecPnl: the loop of calculate_token_pnl ------------ *)

\* the next element of sorted_transfers: sorted by timestamp, the k-th
\* record carrying hash k
NextTransfer(t) ==
    /\ pnl_pc = "loop"
    /\ pnl_processed < MaxPnlTransfers
    /\ t.timestamp >= transfer.timestamp
    /\ pnl_processed' = pnl_processed + 1
    /\ transfer' = [t EXCEPT !.hash = pnl_processed + 1]

\* the movement as the event generate_tax_events makes of it, valued at the
\* unit price of the lookup
MovementEvent(t, price) ==
    TokenEvent([hash |-> t.hash, timestamp |-> t.timestamp, value |-> t.value,
                direction |-> t.direction, token_symbol |-> t.token_symbol,
                value_usd |-> t.value * price])

\* if not token_key: continue
PnlNoKey ==
    \E t \in PnlTransfers :
        /\ NextTransfer(t)
        /\ Lower(t.contract_address) = ""
        /\ UNCHANGED <<token_trades, current_price, pnl_pc, results, fifo>>
        /\ UNCHANGED <<ledgerVars, reportVars, callVars, exportVars, cacheVars, nftVars>>

PnlBuy ==
    \E t \in PnlTransfers, quote \in Quotes :
        LET token_key == Lower(t.contract_address)
            price     == CurrentPrice(t.token_symbol, quote)
        IN  /\ NextTransfer(t)
            /\ token_key # ""
            /\ t.direction = "in"
            /\ current_price' = price
            /\ token_trades' =
                   PutTokenData(token_trades,
                                PnlBuyBranch(TokenData(token_trades, token_key),
                                             transfer', price))
            /\ fifo' = [fifo EXCEPT
                           ![token_key] = ApplyEvent(@, MovementEvent(transfer', price))]
            /\ UNCHANGED <<pnl_pc, results>>
            /\ UNCHANGED <<ledgerVars, reportVars, callVars, exportVars, cacheVars, nftVars>>

PnlSell ==
    \E t \in PnlTransfers, quote \in Quotes :
        LET token_key == Lower(t.contract_address)
            price     == CurrentPrice(t.token_symbol, quote)
        IN  /\ NextTransfer(t)
            /\ token_key # ""
            /\ t.direction # "in"
            /\ current_price' = price
            /\ token_trades' =
                   PutTokenData(token_trades,
                                PnlSellBranch(TokenData(token_trades, token_key),
                                              transfer', price))
            /\ fifo' = [fifo EXCEPT
                           ![token_key] = ApplyEvent(@, MovementEvent(transfer', price))]
            /\ UNCHANGED <<pnl_pc, results>>
            /\ UNCHANGED <<ledgerVars, reportVars, callVars, exportVars, cacheVars, nftVars>>

\* the loop over token_trades, the sort and return results; one lookup per token
PnlReturn ==
    \E quotes \in [1..Len(token_trades) -> Quotes] :
        /\ pnl_pc = "loop"
        /\ pnl_pc' = "done"
        /\ results' = SortByTotalPnl([i \in 1..Len(token_trades) |->
                                         PnlResult(token_trades[i], quotes[i])])
        /\ UNCHANGED <<token_trades, transfer, current_price, pnl_processed, fifo>>
        /\ UNCHANGED <<ledgerVars, reportVars, callVars, exportVars, cacheVars, nftVars>>

InitPnl ==
    /\ LedgerInit
    /\ transactions = <<>>
    /\ token_transfers = <<>>
    /\ report = NoReport
    /\ PnlInit
    /\ CallsInit
    /\ ExportInit
    /\ CacheInit
    /\ NftInit

NextPnl == PnlNoKey \/ PnlBuy \/ PnlSell \/ PnlReturn

SpecPnl == InitPnl /\ [][NextPnl]_vars

(* -------------- SpecCalls: two calls served concurrently -------------- *)

\* a module-level ledger, the same for every call
SlotShared(r) == 1

\* the objects a call works on are created inside the call: request r's
\* call has its own
Slot(r) == r

\* the movements of the address of a request, both of one token
CallTransfers ==
    [hash : {0}, timestamp : {AcquiredAt}, value : 1..MaxAmount,
     direction : Directions, token_symbol : PricedSymbols,
     contract_address : {"0xab"}]

\* the call of request r takes its next movement
NextMovement(r, t, quote) ==
    /\ Len(call_seen[r]) < MaxCallEvents
    /\ call_seen' = [call_seen EXCEPT ![r] =
                         Append(@, [transfer |-> [t EXCEPT !.hash = Len(call_seen[r]) + 1],
                                    price |-> CurrentPrice(t.token_symbol, quote)])]
    /\ call_order' = Append(call_order, r)

\* one iteration of calculate_gains_fifo in the call of request r
TaxCallStep(r) ==
    \E t \in CallTransfers, quote \in Quotes :
        /\ call_kind[r] = "tax"
        /\ NextMovement(r, t, quote)
        /\ LET m == Last(call_seen'[r]) IN
           call_local' = [call_local EXCEPT ![Slot(r)].ledger =
                              ApplyEvent(@, MovementEvent(m.transfer, m.price))]
        /\ UNCHANGED call_kind
        /\ UNCHANGED <<ledgerVars, reportVars, pnlVars, exportVars, cacheVars, nftVars>>

\* one iteration of calculate_token_pnl in the call of request r
PnlCallStep(r) ==
    \E t \in CallTransfers, quote \in Quotes :
        /\ call_kind[r] = "pnl"
        /\ NextMovement(r, t, quote)
        /\ LET m == Last(call_seen'[r]) IN
           call_local' = [call_local EXCEPT ![Slot(r)].trades =
                              PnlStep(@, m.transfer, m.price)]
        /\ UNCHANGED call_kind
        /\ UNCHANGED <<ledgerVars, reportVars, pnlVars, exportVars, cacheVars, nftVars>>

InitCalls ==
    /\ LedgerInit
    /\ transactions = <<>>
    /\ token_transfers = <<>>
    /\ report = NoReport
    /\ PnlInit
    /\ call_kind \in [Requests -> CallKinds]
    /\ call_local = [r \in Requests |-> NewLocals]
    /\ call_seen = [r \in Requests |-> <<>>]
    /\ call_order = <<>>
    /\ ExportInit
    /\ CacheInit
    /\ NftInit

NextCalls == \E r \in Requests : TaxCallStep(r) \/ PnlCallStep(r)

SpecCalls == InitCalls /\ [][NextCalls]_vars

(* ------------------ SpecExport: the CSV export route ------------------ *)

\* the transactions of the exported address: valued, all of one day
ExportTransactions == {tx \in Transactions : tx.timestamp = AcquiredAt /\ tx.value > 0}

InitExport ==
    /\ LedgerInit
    /\ transactions \in {WithHashes(l, 0) : l \in ListsUpTo(MaxTxs, ExportTransactions)}
    /\ token_transfers = <<>>
    /\ report = NoReport
    /\ AuxInit

\* a request for the CSV export of the report, with or without a year and format
TaxExport ==
    \E y \in YearArgs, f \in FormatTypes :
        /\ report' = generate_tax_report(transactions, token_transfers, y)
        /\ format_type' = f
        /\ csv_data' = export_to_csv(report'.capital_gains, f)
        /\ UNCHANGED <<transactions, token_transfers>>
        /\ UNCHANGED <<ledgerVars, pnlVars, callVars, cacheVars, nftVars>>

NextExport == TaxExport

SpecExport == InitExport /\ [][NextExport]_vars

(* ------------------- SpecPrices: the price cache ---------------------- *)

\* the clock goes on by the given seconds
Elapse(seconds) ==
    /\ seconds > 0 => ticks < MaxTicks
    /\ ticks' = IF seconds > 0 THEN ticks + 1 ELSE ticks
    /\ now' = now + seconds

\* time passes between two calls
Tick ==
    \E d \in Ticks :
        /\ Elapse(d)
        /\ UNCHANGED <<price_cache, cache_time, price_call>>
        /\ UNCHANGED <<ledgerVars, reportVars, pnlVars, callVars, exportVars, nftVars>>

\* seconds since the store of the entry of a key, -1 if it has none
AgeOf(cache_key) == IF cache_key \in DOMAIN cache_time THEN now - cache_time[cache_key] ELSE -1

\* a call answered by return _price_cache[cache_key]
PricesFromCache ==
    \E token_ids \in TokenIdArgs :
        LET cache_key == CacheKey(token_ids) IN
        /\ ServedFromCache(price_cache, cache_time, cache_key, now)
        /\ price_call' = [cache_key |-> cache_key, source |-> "cache",
                          wanted |-> FetchedIds(token_ids),
                          ids |-> price_cache[cache_key].ids,
                          price |-> price_cache[cache_key].price,
                          age |-> AgeOf(cache_key), at |-> now]
        /\ UNCHANGED <<price_cache, cache_time, now, ticks>>
        /\ UNCHANGED <<ledgerVars, reportVars, pnlVars, callVars, exportVars, nftVars>>

\* a call that fetches, stores the data with the time of the store and returns it
PricesFetched ==
    \E token_ids \in TokenIdArgs, quote \in Quotes, seconds \in FetchSeconds :
        LET cache_key == CacheKey(token_ids)
            data      == [ids |-> FetchedIds(token_ids), price |-> quote]
        IN  /\ ~ServedFromCache(price_cache, cache_time, cache_key, now)
            /\ Elapse(seconds)
            /\ price_cache' = Store(price_cache, cache_key, data)
            /\ cache_time' = Store(cache_time, cache_key, now')
            /\ price_call' = [cache_key |-> cache_key, source |-> "fetch",
                              wanted |-> FetchedIds(token_ids),
                              ids |-> data.ids, price |-> data.price,
                              age |-> AgeOf(cache_key), at |-> now]
            /\ UNCHANGED <<ledgerVars, reportVars, pnlVars, callVars, exportVars, nftVars>>

\* a call whose fetch raises, storing the {} it returns
PricesFailedStored ==
    \E token_ids \in TokenIdArgs, seconds \in FetchSeconds :
        LET cache_key == CacheKey(token_ids) IN
        /\ ~ServedFromCache(price_cache, cache_time, cache_key, now)
        /\ Elapse(seconds)
        /\ price_cache' = Store(price_cache, cache_key, [ids |-> <<>>, price |-> 0])
        /\ cache_time' = Store(cache_time, cache_key, now')
        /\ price_call' = [cache_key |-> cache_key, source |-> "failed",
                          wanted |-> FetchedIds(token_ids),
                          ids |-> <<>>, price |-> 0,
                          age |-> AgeOf(cache_key), at |-> now]
        /\ UNCHANGED <<ledgerVars, reportVars, pnlVars, callVars, exportVars, nftVars>>

\* a call whose fetch raises: {} is returned and nothing is stored
PricesFailed ==
    \E token_ids \in TokenIdArgs, seconds \in FetchSeconds :
        LET cache_key == CacheKey(token_ids) IN
        /\ ~ServedFromCache(price_cache, cache_time, cache_key, now)
        /\ Elapse(seconds)
        /\ price_call' = [cache_key |-> cache_key, source |-> "failed",
                          wanted |-> FetchedIds(token_ids),
                          ids |-> <<>>, price |-> 0,
                          age |-> AgeOf(cache_key), at |-> now]
        /\ UNCHANGED <<price_cache, cache_time>>
        /\ UNCHANGED <<ledgerVars, reportVars, pnlVars, callVars, exportVars, nftVars>>

InitPrices ==
    /\ LedgerInit
    /\ transactions = <<>>
    /\ token_transfers = <<>>
    /\ report = NoReport
    /\ AuxInit

NextPrices == Tick \/ PricesFromCache \/ PricesFetched \/ PricesFailed

SpecPrices == InitPrices /\ [][NextPrices]_vars

(* --------------- SpecNft: NFT holdings of get_address_info ------------ *)

InitNft ==
    /\ LedgerInit
    /\ transactions = <<>>
    /\ token_transfers = <<>>
    /\ report = NoReport
    /\ PnlInit
    /\ CallsInit
    /\ ExportInit
    /\ CacheInit
    /\ nft_transfers \in {NewestFirst(l) : l \in ListsUpTo(MaxNftTransfers, NftTransfers)}
    /\ nft_holdings = <<>>
    /\ nft_pc = "request"

\* nft_holdings = self._calculate_nft_holdings(nft_transfers, address)
AddressInfo ==
    /\ nft_holdings' = calculate_nft_holdings(nft_transfers)
    /\ nft_pc' = "done"
    /\ UNCHANGED nft_transfers
    /\ UNCHANGED <<ledgerVars, reportVars, pnlVars, callVars, exportVars, cacheVars>>

NextNft == AddressInfo

SpecNft == InitNft /\ [][NextNft]_vars

(* ------------------------- claims under Spec -------------------------- *)

\* the step just taken iterated over a sell of a positive quantity
SellStep == processed' = processed + 1 /\ event'.type = "sell" /\ event'.amount > 0
\* the step just taken iterated over a buy of a positive quantity
BuyStep == processed' = processed + 1 /\ event'.type = "buy" /\ event'.amount > 0
\* the last iteration was a sell of a positive quantity
AfterSell == event.type = "sell" /\ event.amount > 0
AfterBuy == event.type = "buy" /\ event.amount > 0

\* quantity of the first k lots of a queue
RECURSIVE PrefixSum(_, _)
PrefixSum(queue, k) == IF k = 0 THEN 0 ELSE PrefixSum(queue, k - 1) + queue[k].amount

\* FIFO reference: lot i gives min(its quantity, quantity still to sell)
Taken(queue, qty, i) ==
    LET still == qty - PrefixSum(queue, i - 1)
    IN  IF still <= 0 THEN 0 ELSE Min(queue[i].amount, still)

RECURSIVE ReferenceCost(_, _, _)
ReferenceCost(queue, qty, k) ==
    IF k = 0 THEN 0
    ELSE ReferenceCost(queue, qty, k - 1) + Taken(queue, qty, k) * queue[k].cost_per_unit

\* C1: every sell's cost_basis is the FIFO reference value over the asset's
\* open lots in acquisition order, and gain_loss is proceeds minus cost_basis.
C1_FifoCostBasis ==
    [][SellStep =>
        LET queue == holdings[event'.asset]
            g == Last(gains')
            reference == ReferenceCost(queue, event'.amount, Len(queue))
        IN  /\ Len(gains') = Len(gains) + 1
            /\ g.cost_basis = reference
            /\ g.proceeds = event'.value_usd * Scale
            /\ g.gain_loss = event'.value_usd * Scale - reference]_vars

\* a sell that used up one lot and part of the next, the two at different unit costs
C1_Witness ==
    /\ AfterSell
    /\ Len(lots_used) = 2
    /\ remaining_to_sell = 0
    /\ lots_used[1].cost_per_unit # lots_used[2].cost_per_unit
    /\ holdings[event.asset] # <<>>
    /\ Last(gains).cost_basis > 0

\* C2: for every asset, the quantity acquired equals the quantity matched
\* against lots by sells plus the quantity of the lots still queued.
C2_QuantityConservation ==
    \A a \in Assets : acquired[a] = matched[a] + SumAmounts(holdings[a])

\* an asset with a part of its acquisitions sold and a part still held
C2_Witness ==
    \E a \in Assets :
        /\ matched[a] > 0
        /\ SumAmounts(holdings[a]) > 0
        /\ acquired[a] > matched[a]

\* C4: an oversold sell is flagged in its disposal record by partialMatch = true.
C4_PartialMatchFlag ==
    (AfterSell /\ remaining_to_sell > 0) =>
        /\ "partialMatch" \in DOMAIN Last(gains)
        /\ Last(gains)["partialMatch"] = TRUE

\* C5: an oversold sell emits exactly one record whose cost_basis is the cost
\* of all lots held, whose amount_sold is the requested quantity, leaves the
\* asset's queue empty and leaves the replay running.
C5_OversoldKeepsGoing ==
    [][(SellStep /\ event'.amount > SumAmounts(holdings[event'.asset])) =>
        /\ Len(gains') = Len(gains) + 1
        /\ SubSeq(gains', 1, Len(gains)) = gains
        /\ Last(gains').cost_basis = SumCost(holdings[event'.asset])
        /\ Last(gains').amount_sold = event'.amount
        /\ Last(gains').tx_hash = event'.tx_hash
        /\ holdings'[event'.asset] = <<>>
        /\ pc' = "loop"]_vars

\* total amount_sold of an asset's disposal records
RECURSIVE SoldTotal(_, _)
SoldTotal(records, a) ==
    IF records = <<>> THEN 0
    ELSE (IF Head(records).asset = a THEN Head(records).amount_sold ELSE 0)
            + SoldTotal(Tail(records), a)

\* a buy processed after an oversold sell of a non-empty queue
C5_Witness ==
    /\ AfterBuy
    /\ matched[event.asset] > 0
    /\ SoldTotal(gains, event.asset) > matched[event.asset]
    /\ holdings[event.asset] = <<NewLot(event)>>

\* the acquisition timestamp of the earliest lot a sell consumed
EarliestUsed ==
    CHOOSE t \in {lots_used[i].timestamp : i \in 1..Len(lots_used)} :
        \A i \in 1..Len(lots_used) : t <= lots_used[i].timestamp

\* C6 as stated: a disposal that consumed a lot is long_term exactly when it is
\* more than 365 days after the acquisition of the earliest lot consumed.
C6_HoldPeriodByAge ==
    (AfterSell /\ lots_used # <<>>) =>
        /\ Last(gains).hold_period \in {"long_term", "short_term"}
        /\ Last(gains).hold_period = "long_term"
            <=> event.timestamp - EarliestUsed > 365 * 86400

\* C6 amended: long_term exactly when the earliest acquisition timestamp is
\* not 0 and the disposal is more than 365 days after it, short_term otherwise.
C6_HoldPeriodByKnownAge ==
    (AfterSell /\ lots_used # <<>>) =>
        /\ Last(gains).hold_period \in {"long_term", "short_term"}
        /\ Last(gains).hold_period = "long_term"
            <=> (EarliestUsed # 0 /\ event.timestamp - EarliestUsed > 365 * 86400)

\* a disposal exactly 365 days after the acquisition, classified short_term
C6_Witness ==
    /\ AfterSell
    /\ lots_used # <<>>
    /\ EarliestUsed # 0
    /\ event.timestamp - EarliestUsed = 365 * 86400
    /\ Last(gains).hold_period = "short_term"

\* C7: a disposal's hold_period is unknown exactly when the asset's queue was
\* empty when the sell was processed, that is when it consumed no lot.
C7_UnknownIffNoLot ==
    [][SellStep =>
        /\ Last(gains').hold_period = "unknown" <=> holdings[event'.asset] = <<>>
        /\ holdings[event'.asset] = <<>> <=> lots_used' = <<>>
        /\ Last(gains').hold_period \in {"unknown", "short_term", "long_term"}]_vars

\* a sell of an asset without lots, and before it a buy of the other asset
C7_Witness ==
    /\ AfterSell
    /\ lots_used = <<>>
    /\ Last(gains).hold_period = "unknown"
    /\ \E a \in Assets : holdings[a] # <<>>

\* C8: every lot in every asset queue has a quantity greater than zero.
C8_LotsPositive ==
    \A a \in Assets : \A i \in 1..Len(holdings[a]) : holdings[a][i].amount > 0

\* a sell that used up its first lot exactly and left lots in the queue
C8_Witness ==
    /\ AfterSell
    /\ remaining_to_sell = 0
    /\ Len(lots_used) = 1
    /\ holdings[event.asset] # <<>>
    /\ lots_used[1].tx_hash # holdings[event.asset][1].tx_hash

\* C9: a sell that ends inside a lot leaves that lot at the head with its
\* quantity reduced by the consumed amount, its unit cost, timestamp and hash
\* unchanged, the lots behind it unchanged and the other queues untouched.
C9_PartialLotStaysAtHead ==
    [][SellStep =>
        LET queue == holdings[event'.asset] IN
        \A k \in 0..(Len(queue) - 1) :
            (PrefixSum(queue, k) < event'.amount
                /\ event'.amount < PrefixSum(queue, k + 1)) =>
                /\ holdings'[event'.asset] =
                       <<[amount        |-> PrefixSum(queue, k + 1) - event'.amount,
                          cost_per_unit |-> queue[k + 1].cost_per_unit,
                          timestamp     |-> queue[k + 1].timestamp,
                          tx_hash       |-> queue[k + 1].tx_hash]>>
                           \o SubSeq(queue, k + 2, Len(queue))
                /\ \A a \in Assets \ {event'.asset} : holdings'[a] = holdings[a]
                /\ k = 0 =>
                       Last(gains').cost_basis = event'.amount * queue[1].cost_per_unit]_vars

\* a sell that took part of the head lot while another lot waits behind it
C9_Witness ==
    /\ AfterSell
    /\ Len(lots_used) = 1
    /\ Len(holdings[event.asset]) = 2
    /\ holdings[event.asset][1].tx_hash = lots_used[1].tx_hash
    /\ holdings[event.asset][1].amount = 1
    /\ lots_used[1].amount = 1

\* C10: a buy of a positive quantity appends one lot (amount, value_usd / amount,
\* timestamp) at the tail of its asset's queue; the lots already queued, the
\* other queues and the disposal records stay as they are.
C10_BuyAppendsLot ==
    [][BuyStep =>
        LET new == Last(holdings'[event'.asset]) IN
        /\ Len(holdings'[event'.asset]) = Len(holdings[event'.asset]) + 1
        /\ SubSeq(holdings'[event'.asset], 1, Len(holdings[event'.asset]))
               = holdings[event'.asset]
        /\ new.amount = event'.amount
        /\ new.cost_per_unit * event'.amount = event'.value_usd * Scale
        /\ new.timestamp = event'.timestamp
        /\ \A a \in Assets \ {event'.asset} : holdings'[a] = holdings[a]
        /\ gains' = gains]_vars

\* a buy of 2 units for 1 USD appended behind an earlier lot
C10_Witness ==
    /\ AfterBuy
    /\ event.amount = 2
    /\ event.value_usd = 1
    /\ Len(holdings[event.asset]) = 2
    /\ Last(holdings[event.asset]).cost_per_unit * 2 = Scale

(* ----------------------- claims under SpecReport ---------------------- *)

\* C3: the capital_gains of the report of year Y are the records of the
\* all-time report whose date falls in year Y, in the same order.
C3_YearFilterAfterReplay ==
    report.year # 0 =>
        report.capital_gains =
            SelectSeq(generate_tax_report(transactions, token_transfers, 0).capital_gains,
                      LAMBDA g : g.date.year = report.year)

\* the list without its i-th element
RemoveAt(list, i) == SubSeq(list, 1, i - 1) \o SubSeq(list, i + 1, Len(list))

\* the ledger calculate_gains_fifo ends with on a stream
FinalLedger(events) == ReplayFrom(EmptyLedger, events)

\* C11: an event whose quantity is not positive is rejected on its own: the
\* iteration over it changes no lot queue and emits no record, and the records
\* and final queues of the whole replay are those of the stream without it.
C11_RejectedEventIsNoOp ==
    LET events == report.tax_events IN
    \A i \in 1..Len(events) :
        events[i].amount <= 0 =>
            /\ FinalLedger(SubSeq(events, 1, i)) = FinalLedger(SubSeq(events, 1, i - 1))
            /\ FinalLedger(events) = FinalLedger(RemoveAt(events, i))
            /\ report.capital_gains = FinalLedger(RemoveAt(events, i)).gains

\* a zero-quantity transfer replayed ahead of a buy and a sell that give a record
C11_Witness ==
    /\ Len(report.tax_events) = 3
    /\ report.tax_events[1].amount = 0
    /\ report.tax_events[2].type = "buy"
    /\ report.tax_events[3].type = "sell"
    /\ Len(report.capital_gains) = 1
    /\ report.capital_gains[1].cost_basis > 0

\* C12: the sell of an asset that was never acquired ends in an error (the
\* replay stops in an error state, or what it emits for the sell carries an
\* error), not in an ordinary disposal record.
C12_UnseenAssetIsError ==
    (AfterSell /\ acquired[event.asset] = 0) =>
        \/ pc = "error"
        \/ \A i \in 1..Len(gains) :
               gains[i].tx_hash = event.tx_hash => "error" \in DOMAIN gains[i]

\* sum of gain_loss over the records satisfying a condition on hold_period
RECURSIVE SumGainLoss(_, _)
SumGainLoss(records, periods) ==
    IF records = <<>> THEN 0
    ELSE (IF Head(records).hold_period \in periods THEN Head(records).gain_loss ELSE 0)
            + SumGainLoss(Tail(records), periods)

AssetsOf(records) == {records[i].asset : i \in 1..Len(records)}

\* C13 as stated: net_short_term is the sum of gain_loss over the short_term
\* records, net_long_term the sum over the long_term records, total_disposals
\* the number of records, assets_traded the distinct assets of the records.
C13_SummaryTotals ==
    report.method = "FIFO" =>
        /\ report.summary.net_short_term
               = SumGainLoss(report.capital_gains, {"short_term"})
        /\ report.summary.net_long_term
               = SumGainLoss(report.capital_gains, {"long_term"})
        /\ report.summary.total_disposals = Len(report.capital_gains)
        /\ report.summary.assets_traded = AssetsOf(report.capital_gains)

\* C13, amended: net_short_term is the sum of gain_loss over every record whose
\* hold_period is not long_term (short_term and unknown alike); the other three
\* totals are as stated.
C13_SummaryTotalsNotLongTerm ==
    report.method = "FIFO" =>
        /\ report.summary.net_short_term
               = SumGainLoss(report.capital_gains, {"short_term", "unknown"})
        /\ report.summary.net_long_term
               = SumGainLoss(report.capital_gains, {"long_term"})
        /\ report.summary.total_disposals = Len(report.capital_gains)
        /\ report.summary.assets_traded = AssetsOf(report.capital_gains)

\* a report with a short_term loss and an unknown disposal with a gain, of two assets
C13_Witness ==
    /\ report.method = "FIFO"
    /\ report.summary.short_term_losses > 0
    /\ \E i \in 1..Len(report.capital_gains) :
           /\ report.capital_gains[i].hold_period = "unknown"
           /\ report.capital_gains[i].gain_loss > 0
    /\ Cardinality(report.summary.assets_traded) = 2

\* the input record (transaction or token transfer) an event was made from
InputOf(e) ==
    IF e.tx_hash <= MaxTxs THEN transactions[e.tx_hash]
    ELSE token_transfers[e.tx_hash - MaxTxs]

HashesOf(list) == [i \in 1..Len(list) |-> list[i].tx_hash]

\* C14: the replay emits exactly one record per Out event of positive
\* quantity, in stream order, and none for an In event; every In event of
\* positive quantity creates exactly one lot; every event is applied once.
C14_ReplayDispatch ==
    LET events == report.tax_events
        outs   == SelectSeq(events, LAMBDA e : InputOf(e).direction = "out" /\ e.amount > 0)
        ins(a) == SelectSeq(events, LAMBDA e : /\ InputOf(e).direction = "in"
                                                /\ e.amount > 0
                                                /\ e.asset = a)
        final  == FinalLedger(events)
    IN  /\ HashesOf(report.capital_gains) = HashesOf(outs)
        /\ \A i \in 1..Len(outs) :
               /\ report.capital_gains[i].asset = outs[i].asset
               /\ report.capital_gains[i].amount_sold = outs[i].amount
        /\ \A a \in Assets :
               /\ \A k \in 1..Len(final.holdings[a]) :
                      \E i \in 1..Len(ins(a)) :
                          final.holdings[a][k].tx_hash = ins(a)[i].tx_hash
               /\ \A k, l \in 1..Len(final.holdings[a]) :
                      final.holdings[a][k].tx_hash = final.holdings[a][l].tx_hash => k = l
               /\ (\A i \in 1..Len(outs) : outs[i].asset # a) =>
                      final.holdings[a] = [i \in 1..Len(ins(a)) |-> NewLot(ins(a)[i])]

\* a stream of an In transfer, an In transaction and an Out transaction: one
\* record, for the Out, and the token lot still queued
C14_Witness ==
    /\ Len(report.tax_events) = 3
    /\ \E i \in 1..3 : /\ report.tax_events[i].asset # native_symbol
                       /\ report.tax_events[i].type = "buy"
                       /\ report.tax_events[i].amount > 0
    /\ Len(report.capital_gains) = 1
    /\ report.capital_gains[1].asset = native_symbol
    /\ report.capital_gains[1].cost_basis > 0

\* C15: whatever the order of the input lists, the replay of generate_tax_report
\* goes through the events in non-decreasing timestamp order and through every
\* input event exactly once, so no sell is replayed before a buy of the same
\* asset with a strictly smaller timestamp.
C15_ReplayInTimestampOrder ==
    report.method = "FIFO" =>
        LET events == report.tax_events
            inputs == NativeEvents(transactions) \o TokenEvents(token_transfers)
        IN  /\ \A i, j \in 1..Len(events) :
                   i < j => events[i].timestamp <= events[j].timestamp
            /\ Len(events) = Len(inputs)
            /\ \A k \in 1..Len(inputs) :
                   Cardinality({i \in 1..Len(events) : events[i] = inputs[k]}) = 1
            /\ \A i, j \in 1..Len(events) :
                   (/\ events[i].asset = events[j].asset
                    /\ events[i].type = "buy" /\ events[j].type = "sell"
                    /\ events[i].timestamp < events[j].timestamp) => i < j

LotsOf(queue) ==
    [i \in 1..Len(queue) |-> [amount        |-> queue[i].amount,
                              cost_per_unit |-> queue[i].cost_per_unit,
                              timestamp     |-> queue[i].timestamp]]

CostBasesOf(records) == [i \in 1..Len(records) |-> records[i].cost_basis]

\* C17: on the same chronological movements of one token at the same unit
\* prices, calculate_token_pnl and calculate_gains_fifo give the same cost
\* basis for every sale and the same queue of open lots, zero quantities
\* included.
C17_SameEngine ==
    \A k \in TokenKeys :
        LET data == TokenData(token_trades, k) IN
        \A a \in PricedSymbols :
            /\ LotsOf(data.holdings) = LotsOf(fifo[k].holdings[a])
            /\ CostBasesOf(data.sells) = CostBasesOf(fifo[k].gains)

\* C22: in calculate_token_pnl, after any sequence of transfers of a token,
\* current_balance equals the sum of the quantities of the lots left in the
\* token's holdings queue, and equals total_bought - total_sold.
C22_BalanceIsOpenLots ==
    \A i \in 1..Len(token_trades) :
        /\ token_trades[i].current_balance = SumAmounts(token_trades[i].holdings)
        /\ token_trades[i].current_balance
               = token_trades[i].total_bought - token_trades[i].total_sold

\* the quantity held of a token after its movements up to the one carrying
\* tx_hash, from the buys and sells lists alone
RECURSIVE PoolAfter(_, _)
PoolAfter(data, tx_hash) ==
    IF tx_hash = 0 THEN 0
    ELSE LET before == PoolAfter(data, tx_hash - 1) IN
         IF \E i \in 1..Len(data.buys) : data.buys[i].tx_hash = tx_hash
         THEN before + data.buys[CHOOSE i \in 1..Len(data.buys) :
                                     data.buys[i].tx_hash = tx_hash].amount
         ELSE IF \E j \in 1..Len(data.sells) : data.sells[j].tx_hash = tx_hash
         THEN LET sold == data.sells[CHOOSE j \in 1..Len(data.sells) :
                                         data.sells[j].tx_hash = tx_hash].amount
              IN  IF sold >= before THEN 0 ELSE before - sold
         ELSE before

\* the quantity of the j-th sale that found no lot
Unmatched(data, j) ==
    LET held == PoolAfter(data, data.sells[j].tx_hash - 1) IN
    IF data.sells[j].amount > held THEN data.sells[j].amount - held ELSE 0

RECURSIVE SumUnmatched(_, _)
SumUnmatched(data, j) ==
    IF j = 0 THEN 0 ELSE Unmatched(data, j) + SumUnmatched(data, j - 1)

\* the prices recorded on the buys and sells of a token
LookupPrices(data) ==
    {data.buys[i].price : i \in 1..Len(data.buys)}
        \cup {data.sells[j].price : j \in 1..Len(data.sells)}

\* C25: for a token whose lookups all returned the same price, every sale
\* fully matched against lots has realized_pnl 0, every sale has realized_pnl
\* price * its quantity that found no lot, and the token's realized_pnl is
\* price * the total sold quantity that found no lot.
C25_ConstantPriceRealizesUnmatchedOnly ==
    \A i \in 1..Len(token_trades) :
        LET data == token_trades[i] IN
        \A price \in LookupPrices(data) :
            LookupPrices(data) = {price} =>
                /\ \A j \in 1..Len(data.sells) :
                       /\ data.sells[j].realized_pnl = price * Unmatched(data, j)
                       /\ Unmatched(data, j) = 0 => data.sells[j].realized_pnl = 0
                /\ data.realized_pnl = price * SumUnmatched(data, Len(data.sells))

\* at one price above 0: a buy, a sale taking a part of the lot and a sale
\* larger than what is left
C25_Witness ==
    \E i \in 1..Len(token_trades) :
        LET data == token_trades[i] IN
        /\ \E price \in LookupPrices(data) : price > 0 /\ LookupPrices(data) = {price}
        /\ Len(data.buys) = 1
        /\ Len(data.sells) = 2
        /\ data.buys[1].amount = 2
        /\ data.sells[1].amount = 1
        /\ Unmatched(data, 1) = 0
        /\ data.sells[1].realized_pnl = 0
        /\ Unmatched(data, 2) > 0
        /\ data.realized_pnl > 0

(* ------------------------ claims under SpecCalls ---------------------- *)

\* the ledger of calculate_gains_fifo run alone on a list of movements
RECURSIVE TaxAlone(_)
TaxAlone(movements) ==
    IF movements = <<>> THEN TokenLedger
    ELSE ApplyEvent(TaxAlone(SubSeq(movements, 1, Len(movements) - 1)),
                    MovementEvent(Last(movements).transfer, Last(movements).price))

\* token_trades of calculate_token_pnl run alone on a list of movements
RECURSIVE PnlAlone(_)
PnlAlone(movements) ==
    IF movements = <<>> THEN <<>>
    ELSE PnlStep(PnlAlone(SubSeq(movements, 1, Len(movements) - 1)),
                 Last(movements).transfer, Last(movements).price)

NamedFormats == {"generic", "turbotax", "koinly"}

\* C19: the export in a named profile (generic, turbotax, koinly) is one
\* header row followed by exactly one data row per disposal, in input order.
C19_OneRowPerDisposal ==
    format_type \in NamedFormats =>
        /\ Len(csv_data) = 1 + Len(report.capital_gains)
        /\ DOMAIN csv_data[1] = {"fieldnames"}
        /\ \A i \in 1..Len(report.capital_gains) :
               /\ "Date Sold" \in DOMAIN csv_data[i + 1]
               /\ csv_data[i + 1]["Date Sold"] = report.capital_gains[i].date

(* ----------------------- claims under SpecPrices ---------------------- *)

\* C20: a value get_token_prices returns from the cache was stored less than
\* CACHE_DURATION (300) seconds before the call, and it is the value stored;
\* a call made 300 seconds or more after the store of its key's entry does
\* not answer from the cache: it issues a new fetch.
C20_CacheYoungerThanDuration ==
    /\ price_call.source = "cache" =>
           /\ 0 <= price_call.age
           /\ price_call.age < 300
           /\ price_call.cache_key \in DOMAIN price_cache
           /\ price_call.ids = price_cache[price_call.cache_key].ids
           /\ price_call.price = price_cache[price_call.cache_key].price
           /\ cache_time[price_call.cache_key] = price_call.at - price_call.age
    /\ price_call.age >= 300 => price_call.source \in {"fetch", "failed"}

\* an entry served at the age of 299 seconds
C20_Witness ==
    /\ price_call.source = "cache"
    /\ price_call.age = 299

\* a call 300 seconds after the store, answered by a new fetch
C20_WitnessExpired ==
    /\ price_call.source = "fetch"
    /\ price_call.age = 300

\* C26: a value get_token_prices returns from the cache was fetched for the
\* effective token-id list of the current call (None standing for the six
\* major tokens): no call receives data fetched for a different set.
C26_CachedForSameIds ==
    price_call.source = "cache" => price_call.ids = price_call.wanted

\* a step that is a call of get_token_prices
IsPriceCall == price_call' # price_call

\* C27: a call whose fetch fails returns an empty mapping and leaves
\* _price_cache and _cache_time as they were; the call after a failure is
\* answered from the cache with the entry stored earlier when that entry is
\* unexpired, and fetches again when its key is uncached or expired.
C27_FailureNotCached ==
    [][/\ (IsPriceCall /\ price_call'.source = "failed") =>
              /\ price_call'.ids = <<>>
              /\ price_cache' = price_cache
              /\ cache_time' = cache_time
       /\ (IsPriceCall /\ price_call.source = "failed") =>
              IF /\ price_call'.cache_key \in DOMAIN price_cache
                 /\ now - cache_time[price_call'.cache_key] < 300
              THEN /\ price_call'.source = "cache"
                   /\ price_call'.ids = price_cache[price_call'.cache_key].ids
                   /\ price_call'.price = price_cache[price_call'.cache_key].price
              ELSE price_call'.source \in {"fetch", "failed"}]_vars

\* a failed call for a key whose entry has expired, another key's entry
\* being unexpired: both entries are still there
C27_Witness ==
    /\ price_call.source = "failed"
    /\ price_call.age >= 300
    /\ price_call.cache_key \in DOMAIN price_cache
    /\ price_cache[price_call.cache_key].ids # <<>>
    /\ \E k \in DOMAIN price_cache :
           /\ k # price_call.cache_key
           /\ now - cache_time[k] < 300

(* ------------------------- claims under SpecNft ----------------------- *)

\* the chronologically latest transfer of an NFT in the list is inbound
LatestInbound(key) ==
    \E i \in 1..Len(nft_transfers) :
        /\ NftKey(nft_transfers[i]) = key
        /\ nft_transfers[i].direction = "in"
        /\ \A j \in 1..Len(nft_transfers) :
               NftKey(nft_transfers[j]) = key =>
                   nft_transfers[j].timestamp <= nft_transfers[i].timestamp

\* C21: for the list as delivered (newest first), an NFT is in the result of
\* _calculate_nft_holdings if and only if its chronologically latest transfer
\* is inbound to the address.
C21_NftHeldIffLatestInbound ==
    nft_pc = "done" =>
        \A key \in NftKeys :
            (\E i \in 1..Len(nft_holdings) : NftKey(nft_holdings[i]) = key)
                <=> LatestInbound(key)

(* --------------------- claims under SpecContracts --------------------- *)

\* what an event moves: the native asset, or the token of one contract
ContractOf(e) ==
    IF e.tx_hash <= MaxTxs THEN "native" ELSE token_transfers[e.tx_hash - MaxTxs].contract_address

\* C23: in generate_tax_report a disposal of a token consumes only lots made
\* by acquisitions of the same token contract: its record is the one the
\* replay of that contract's events alone gives, whatever other contracts
\* (same symbol or not) and the native asset did.
C23_LotsKeyedByContract ==
    \A c \in {"native", "0xab", "0xcd"} :
        SelectSeq(report.capital_gains, LAMBDA g : ContractOf(g) = c)
            = calculate_gains_fifo(SelectSeq(report.tax_events, LAMBDA e : ContractOf(e) = c))

(* -------------------- claims under SpecReport, continued -------------- *)

\* C28: in every tax summary net_short_term + net_long_term is the sum of
\* gain_loss over all disposal records, whatever their hold_period
\* (short_term, long_term or unknown).
C28_NetsSumToTotalGain ==
    report.method = "FIFO" =>
        report.summary.net_short_term + report.summary.net_long_term
            = SumGainLoss(report.capital_gains, {"short_term", "long_term", "unknown"})

\* a report with a disposal of unknown hold period at a gain and a disposal
\* of a lot at a loss
C28_Witness ==
    /\ report.method = "FIFO"
    /\ \E i, j \in 1..Len(report.capital_gains) :
           /\ report.capital_gains[i].hold_period = "unknown"
           /\ report.capital_gains[i].gain_loss > 0
           /\ report.capital_gains[j].hold_period # "unknown"
           /\ report.capital_gains[j].gain_loss < 0

(* ------------------------ claims under SpecLots ----------------------- *)

\* the place in the replayed stream of the event carrying a hash
PlaceOf(tx_hash) ==
    CHOOSE i \in 1..Len(report.tax_events) : report.tax_events[i].tx_hash = tx_hash

\* C24: after every event of calculate_gains_fifo, every lot of an asset's
\* queue other than the first still has the quantity of its acquisition
\* event, and the lots stand in the order of their acquisition events.
C24_OnlyHeadLotPartial ==
    LET events == report.tax_events IN
    \A n \in 0..Len(events) : \A a \in Assets :
        LET queue == FinalLedger(SubSeq(events, 1, n)).holdings[a] IN
        /\ \A k \in 1..Len(queue) :
               /\ PlaceOf(queue[k].tx_hash) <= n
               /\ events[PlaceOf(queue[k].tx_hash)].type = "buy"
               /\ events[PlaceOf(queue[k].tx_hash)].asset = a
               /\ queue[k].amount <= events[PlaceOf(queue[k].tx_hash)].amount
        /\ \A k \in 2..Len(queue) :
               /\ queue[k].amount = events[PlaceOf(queue[k].tx_hash)].amount
               /\ PlaceOf(queue[k - 1].tx_hash) < PlaceOf(queue[k].tx_hash)

\* two lots of 2 and a sell of 1: the head lot is down to 1, the second whole
C24_Witness ==
    /\ Len(report.tax_events) = 3
    /\ LET queue == FinalLedger(report.tax_events).holdings[native_symbol] IN
       /\ Len(queue) = 2
       /\ queue[1].amount = 1
       /\ queue[2].amount = 2
       /\ report.tax_events[PlaceOf(queue[1].tx_hash)].amount = 2
    /\ Len(report.capital_gains) = 1

(* ------------------------ claims under SpecFeed ----------------------- *)

\* C29: in the tax-report route, the record of the feed behind every
\* disposal of a positive quantity has a value_usd field, so that proceeds
\* and cost basis come from the feed and not from the default 0.
C29_DisposalsCarryFeedValue ==
    \A i \in 1..Len(report.tax_events) :
        LET e == report.tax_events[i] IN
        (e.type = "sell" /\ e.amount > 0) => "value_usd" \in DOMAIN InputOf(e)

====
